---- MODULE Spec2Model ----
(***************************************************************************)
(* SN73 micro-grid bot (src/sn73_micro_grid_bot.py): the position ledger,  *)
(* the cycle of micro_grid_cycle (DCA phase, sell scan, status, sleep),    *)
(* the retry loops around the gateway calls, the slippage check and the    *)
(* state file written by save_state and read back by load_state.           *)
(*                                                                         *)
(* Units.  TAO amounts are integers counting 0.01 TAO (dca_amount 0.05 is  *)
(* 5), prices are integers counting 0.01 TAO per alpha.  Quantities the    *)
(* code obtains by division (alpha_amount, sell_target_price, tao_received,*)
(* profit_tao, profit_percent_actual, total_profit_realized) are exact     *)
(* fractions [n, d]; the rounding of Python's binary floats is not         *)
(* modelled.  The clock counts check intervals.                            *)
(***************************************************************************)
EXTENDS Integers, Sequences, FiniteSets, TLC

VARIABLES
    config,                \* self.config (read from the YAML file, never written)
    now,                   \* time.time() / datetime.now()
    running,               \* self.running
    pc,                    \* position of run(): cycle, sells, scan, status, sleep, stopped
    total_invested,        \* self.total_invested
    active_positions,      \* self.active_positions
    completed_trades,      \* self.completed_trades
    position_counter,      \* self.position_counter
    total_profit_realized, \* self.total_profit_realized
    successful_sells,      \* self.successful_sells
    failed_sells,          \* self.failed_sells
    last_dca_time,         \* self.last_dca_time
    disk,                  \* the state file sn73_bot_state_<wallet>.json
    scan,                  \* locals of check_and_execute_sells while it runs
    event,                 \* history: what the last step did
    maxIssued,             \* history: highest position id any run of the bot has assigned
    closedIds,             \* history: ids whose withdrawal succeeded and was accounted
    capPaused,             \* history: the cap latch of the running process (NextLatch)
    writeFailed,           \* history: some save_state write has failed
    restored,              \* history: some process was started after the first one
    lastOpenAt             \* history: time of the last position opened by any process

ledgerVars == <<total_invested, active_positions, completed_trades, position_counter,
                total_profit_realized, successful_sells, failed_sells, last_dca_time>>

vars == <<config, now, running, pc, total_invested, active_positions, completed_trades,
          position_counter, total_profit_realized, successful_sells, failed_sells,
          last_dca_time, disk, scan, event, maxIssued, closedIds, capPaused,
          writeFailed, restored, lastOpenAt>>

----------------------------------------------------------------------------
(* Bounds of the model and constants of the program. *)

MaxTime == 3              \* the clock stops advancing here
ScenarioTime == 101       \* the same, under the scripted gateway
ScanTime == 4             \* the same, in the run that starts from two positions
CeilingTime == 3          \* the same, in the run with a price ceiling
LoadTime == 2             \* the same, in the run whose state file fails to load

max_retries == 3          \* stake_sn73 / unstake_sn73: max_retries = 3
max_slippage_percent == 2 \* getattr(config, 'max_slippage_percent', 2.0)
price_check_tolerance == 1 \* getattr(config, 'price_check_tolerance', 1.0)
auto_fee_reserve == 4     \* getattr(config, 'auto_fee_reserve', 0.04)

\* Prices the gateway may report; 0 stands for "no price": get_subnet_info
\* returned None or raised after its retries (both end the caller the same way).
Prices == {100, 115, 116}
PriceInputs == Prices \cup {0}

\* Prices of the run that starts from two positions (bought at 100 and 101):
\* below both stop-loss prices, and above both sell targets.
ScanPrices == {90, 116, 117}

\* Prices of the run with max_entry_price 100: at the ceiling, 1 % above it
\* (inside what the slippage check tolerates for a buy), and above the sell
\* target of a position bought at 100.
CeilingPrices == {0, 100, 101, 116}

\* Prices of the run whose state file fails to load: a purchase price and a
\* price above its sell target.
LoadPrices == {100, 116}

\* Wallet balances get_wallet_balance may report.
Balances == {3, 9}

\* The same in the run with a price ceiling: below the fee reserve, above
\* dca_amount but short of dca_amount plus the reserve, and exactly enough.
CeilingBalances == {3, 7, 9}

\* What one add_stake / unstake call can do.
\*   success         the call returns and the extrinsic was accepted
\*   rejected_result the call returns a failure result (False), nothing raised
\*   rejected_error  the call raises, the gateway refused the trade for good
\*   transient_error the call raises, network or timeout class
Outcomes == {"success", "rejected_result", "rejected_error", "transient_error"}
Raises(o) == o \in {"rejected_error", "transient_error"}
Rejection(o) == o \in {"rejected_result", "rejected_error"}

\* What one save_state write can do: the file is replaced, or open() fails and
\* the old file stays (the exception is caught and logged).
WriteOutcomes == {"written", "failed_kept"}

\* Configurations.  dca_amount, profit_target_percent as in the test script;
\* the caps are scaled down so that the cap is reached after two purchases:
\* with tolerance 3 the sum max_investment + cap_tolerance is a multiple of
\* dca_amount, with tolerance 2 it is not.  max_entry_price 0 stands for a
\* configuration without that attribute, stop_loss_percent 0 one without a
\* stop-loss.  The field script is not read by the bot: it selects the
\* environment the bot runs against (see PriceChoices).
Configs ==
    { [dca_amount |-> 5, max_investment |-> 7, cap_tolerance |-> tol,
       max_positions |-> 2, dca_interval |-> 1, profit_target_percent |-> 15,
       max_entry_price |-> 100, stop_loss_percent |-> 0, script |-> "none"]
      : tol \in {2, 3} }

\* The configuration of the module docstring and the test script: 0.05 TAO per
\* purchase, cap 5.0 TAO, tolerance 0.1 TAO, 100 positions at most, no
\* max_entry_price.  It is run against a scripted gateway (ScriptPrice below).
ScenarioConfig ==
    [dca_amount |-> 5, max_investment |-> 500, cap_tolerance |-> 10,
     max_positions |-> 100, dca_interval |-> 1, profit_target_percent |-> 15,
     max_entry_price |-> 0, stop_loss_percent |-> 0, script |-> "docstring"]

\* A configuration with a stop-loss of 10 % and no max_entry_price, where
\* max_positions and not the cap limits the purchases.  It is run from a state
\* file with two positions against the prices ScanPrices.
ScanConfig ==
    [dca_amount |-> 5, max_investment |-> 500, cap_tolerance |-> 10,
     max_positions |-> 2, dca_interval |-> 1, profit_target_percent |-> 15,
     max_entry_price |-> 0, stop_loss_percent |-> 10, script |-> "scan"]

\* A configuration run against the prices LoadPrices and a gateway whose calls
\* succeed; its state file is changed from outside while the bot is stopped.
LoadConfig ==
    [dca_amount |-> 5, max_investment |-> 7, cap_tolerance |-> 3,
     max_positions |-> 2, dca_interval |-> 1, profit_target_percent |-> 15,
     max_entry_price |-> 0, stop_loss_percent |-> 0, script |-> "load"]

\* A configuration with max_entry_price 1.00, run against the prices
\* CeilingPrices and the balances CeilingBalances.
CeilingConfig ==
    [dca_amount |-> 5, max_investment |-> 7, cap_tolerance |-> 3,
     max_positions |-> 2, dca_interval |-> 1, profit_target_percent |-> 15,
     max_entry_price |-> 100, stop_loss_percent |-> 0, script |-> "ceiling"]

----------------------------------------------------------------------------
(* Exact fractions for the values Python computes with "/" and "*". *)

RECURSIVE Gcd(_, _)
Gcd(a, b) == IF b = 0 THEN a ELSE Gcd(b, a % b)

Abs(x) == IF x < 0 THEN -x ELSE x

Rat(n, d) ==
    LET g == Gcd(Abs(n), d)
    IN  IF n = 0 THEN [n |-> 0, d |-> 1] ELSE [n |-> n \div g, d |-> d \div g]

RatAdd(a, b) == Rat(a.n * b.d + b.n * a.d, a.d * b.d)
RatSub(a, b) == Rat(a.n * b.d - b.n * a.d, a.d * b.d)
RatMul(a, b) == Rat(a.n * b.n, a.d * b.d)
RatDivInt(a, k) == Rat(a.n, a.d * k)
RatGeq(a, b) == a.n * b.d >= b.n * a.d
RatLeq(a, b) == a.n * b.d <= b.n * a.d
Int2Rat(k) == [n |-> k, d |-> 1]

----------------------------------------------------------------------------
(* Timestamps: a datetime object in memory, a string in the JSON file. *)

Datetime(t) == [kind |-> "datetime", t |-> t]

\* json.dump(..., default=str): a datetime is written as str(datetime);
\* a string stays a string.
JsonTimestamp(ts) == IF ts.kind = "datetime" THEN [kind |-> "str", t |-> ts.t] ELSE ts

\* load_state: if isinstance(x, str): x = datetime.fromisoformat(x)
FromIsoformat(ts) == IF ts.kind = "str" THEN [kind |-> "datetime", t |-> ts.t] ELSE ts

----------------------------------------------------------------------------
(* Gates of the DCA phase. *)

\* is_at_investment_cap
is_at_investment_cap ==
    LET upper_limit == config.max_investment + config.cap_tolerance
    IN  total_invested >= upper_limit

\* can_resume_dca (defined by the bot, called from nowhere)
can_resume_dca ==
    LET lower_limit == config.max_investment - config.cap_tolerance
    IN  total_invested < lower_limit

\* Variant: no fee reserve is held back (sensitivity of C21).
get_available_balance_for_trading_NoReserve(wallet_balance) == wallet_balance

\* get_available_balance_for_trading, fee_reserve_enabled at its default True
get_available_balance_for_trading(wallet_balance) ==
    IF wallet_balance - auto_fee_reserve > 0 THEN wallet_balance - auto_fee_reserve ELSE 0

\* is_time_for_dca
is_time_for_dca ==
    IF last_dca_time = 0 THEN TRUE
    ELSE now - last_dca_time >= config.dca_interval

\* Variant: a gate without the max_positions test (sensitivity of C20).
DcaGate_NoPositionLimit ==
    IF ~is_at_investment_cap
    THEN IF is_time_for_dca THEN "purchase" ELSE "wait_interval"
    ELSE "cap_reached"

\* micro_grid_cycle, phase 1: the three nested tests before execute_dca_purchase
DcaGate ==
    IF ~is_at_investment_cap
    THEN IF Len(active_positions) < config.max_positions
         THEN IF is_time_for_dca THEN "purchase" ELSE "wait_interval"
         ELSE "max_positions"
    ELSE "cap_reached"

----------------------------------------------------------------------------
(* check_price_slippage(expected_price, trade_type); fresh is the price the *)
(* second get_subnet_info reports (0: none).  Returns (ok, price).          *)

\* Variant: a check that accepts without a fetched price and hands back the
\* expected price (sensitivity of C14).
check_price_slippage_NoFetch(expected_price, fresh, trade_type) ==
    [ok |-> TRUE, price |-> expected_price]

\* Variant: a check without the unfavourable-move tests (sensitivity of C15).
check_price_slippage_SlippageOnly(expected_price, fresh, trade_type) ==
    IF fresh = 0 THEN [ok |-> FALSE, price |-> 0]
    ELSE IF Abs(fresh - expected_price) * 100 > max_slippage_percent * expected_price
         THEN [ok |-> FALSE, price |-> 0]
    ELSE [ok |-> TRUE, price |-> fresh]

check_price_slippage(expected_price, fresh, trade_type) ==
    IF fresh = 0 THEN [ok |-> FALSE, price |-> 0]
    ELSE IF Abs(fresh - expected_price) * 100 > max_slippage_percent * expected_price
         THEN [ok |-> FALSE, price |-> 0]
    ELSE IF trade_type = "buy"
            /\ fresh * 100 > expected_price * (100 + price_check_tolerance)
         THEN [ok |-> FALSE, price |-> 0]
    ELSE IF trade_type = "sell"
            /\ fresh * 100 < expected_price * (100 - price_check_tolerance)
         THEN [ok |-> FALSE, price |-> 0]
    ELSE [ok |-> TRUE, price |-> fresh]

----------------------------------------------------------------------------
(* The retry loops.  outs[a] is what the gateway does on attempt a; the     *)
(* result is the value returned and the calls actually made.                *)

\* The attempt at which the loop returns: the first call that does not raise,
\* else the last attempt.
LastAttempt(outs) ==
    IF \E a \in 1..max_retries : ~Raises(outs[a])
    THEN CHOOSE a \in 1..max_retries :
             /\ ~Raises(outs[a])
             /\ \A b \in 1..(a - 1) : Raises(outs[b])
    ELSE max_retries

\* Variant: a stake_sn73 that reports success after its last attempt raised
\* (sensitivity of C12).
stake_sn73_AlwaysTrue(outs) ==
    [success |-> TRUE, calls |-> SubSeq(outs, 1, LastAttempt(outs))]

\* Variant: the same for unstake_sn73 (sensitivity of C13).
unstake_sn73_AlwaysTrue(outs) ==
    [success |-> TRUE, calls |-> SubSeq(outs, 1, LastAttempt(outs))]

\* stake_sn73: "result = await self.sub.add_stake(...); return True"
stake_sn73(outs) ==
    LET n == LastAttempt(outs)
    IN  [success |-> ~Raises(outs[n]), calls |-> SubSeq(outs, 1, n)]

\* unstake_sn73: "result = await self.sub.unstake(...); return True"
unstake_sn73(outs) ==
    LET n == LastAttempt(outs)
    IN  [success |-> ~Raises(outs[n]), calls |-> SubSeq(outs, 1, n)]

\* What the gateway does on the attempts of one retry loop: the scripts tried.
GatewayScripts ==
    { <<"success", "success", "success">>,
      <<"rejected_result", "success", "success">>,
      <<"transient_error", "transient_error", "success">>,
      <<"rejected_error", "success", "success">>,
      <<"transient_error", "transient_error", "transient_error">>,
      <<"rejected_error", "rejected_error", "rejected_error">> }
StakeResults == {stake_sn73(outs) : outs \in GatewayScripts}
UnstakeResults == {unstake_sn73(outs) : outs \in GatewayScripts}

----------------------------------------------------------------------------
(* The environment of one step: what the gateway, the wallet and the file   *)
(* system may answer.  In the docstring run the gateway follows one script:  *)
(* every call succeeds, and the price depends on how far the ledger got, so *)
(* that 100 purchases are made without a sale, then the last position alone *)
(* reaches its target, then the one before it.                              *)

ScriptPrice ==
    IF position_counter < 98 THEN 116
    ELSE IF position_counter = 98 THEN 101
    ELSE IF position_counter = 99 THEN 100
    ELSE IF successful_sells = 0 THEN 115
    ELSE 117

PriceChoices ==
    IF config.script = "docstring" THEN {ScriptPrice}
    ELSE IF config.script = "scan" THEN ScanPrices
    ELSE IF config.script = "ceiling" THEN CeilingPrices
    ELSE IF config.script = "load" THEN LoadPrices
    ELSE PriceInputs
BalanceChoices ==
    IF config.script = "none" THEN Balances
    ELSE IF config.script = "ceiling" THEN CeilingBalances
    ELSE {9}
StakeChoices ==
    IF config.script \in {"docstring", "load"}
    THEN {stake_sn73(<<"success", "success", "success">>)}
    ELSE StakeResults
UnstakeChoices ==
    IF config.script \in {"docstring", "load"}
    THEN {unstake_sn73(<<"success", "success", "success">>)}
    ELSE UnstakeResults
WriteChoices == IF config.script = "none" THEN WriteOutcomes ELSE {"written"}
TimeLimit ==
    IF config.script = "docstring" THEN ScenarioTime
    ELSE IF config.script = "scan" THEN ScanTime
    ELSE IF config.script = "ceiling" THEN CeilingTime
    ELSE IF config.script = "load" THEN LoadTime
    ELSE MaxTime

----------------------------------------------------------------------------
(* Positions. *)

\* execute_dca_purchase: the position dict built after a successful stake
NewPosition(id, current_price) ==
    [id |-> id,
     buy_price |-> current_price,
     sell_target_price |-> Rat(current_price * (100 + config.profit_target_percent), 100),
     alpha_amount |-> Rat(config.dca_amount, current_price),
     tao_invested |-> config.dca_amount,
     created_timestamp |-> Datetime(now),
     status |-> "active",
     profit_percent |-> config.profit_target_percent]

\* Variant: the profit recorded is the amount received (sensitivity of C26).
SoldPosition_GrossProfit(position, current_price) ==
    LET tao_received == RatMul(position.alpha_amount, Int2Rat(current_price))
        profit_tao == tao_received
        profit_percent == RatMul(RatDivInt(profit_tao, position.tao_invested), Int2Rat(100))
    IN  [id |-> position.id,
         buy_price |-> position.buy_price,
         sell_target_price |-> position.sell_target_price,
         alpha_amount |-> position.alpha_amount,
         tao_invested |-> position.tao_invested,
         created_timestamp |-> position.created_timestamp,
         status |-> "sold",
         profit_percent |-> position.profit_percent,
         sell_price |-> current_price,
         tao_received |-> tao_received,
         profit_tao |-> profit_tao,
         profit_percent_actual |-> profit_percent,
         sell_timestamp |-> Datetime(now)]

\* check_and_execute_sells: the position dict after a successful unstake
SoldPosition(position, current_price) ==
    LET tao_received == RatMul(position.alpha_amount, Int2Rat(current_price))
        profit_tao == RatSub(tao_received, Int2Rat(position.tao_invested))
        profit_percent == RatMul(RatDivInt(profit_tao, position.tao_invested), Int2Rat(100))
    IN  [id |-> position.id,
         buy_price |-> position.buy_price,
         sell_target_price |-> position.sell_target_price,
         alpha_amount |-> position.alpha_amount,
         tao_invested |-> position.tao_invested,
         created_timestamp |-> position.created_timestamp,
         status |-> "sold",
         profit_percent |-> position.profit_percent,
         sell_price |-> current_price,
         tao_received |-> tao_received,
         profit_tao |-> profit_tao,
         profit_percent_actual |-> profit_percent,
         sell_timestamp |-> Datetime(now)]

\* Variant: the amount is added once per gateway attempt allowed
\* (sensitivity of C11).
InvestedAfterOpen_PerAttempt == total_invested + max_retries * config.dca_amount

\* self.total_invested += self.config.dca_amount
InvestedAfterOpen == total_invested + config.dca_amount

\* Variant: a sale that frees no cap space (sensitivity of C1).
InvestedAfterSell_NoRelease(position) == total_invested

\* self.total_invested -= position["tao_invested"]
InvestedAfterSell(position) == total_invested - position.tao_invested

\* list.remove(x): drops the first element equal to x
ListRemove(list, x) ==
    LET n == Len(list)
        first == CHOOSE i \in 1..(n + 1) :
                    /\ i = n + 1 \/ list[i] = x
                    /\ \A j \in 1..(i - 1) : list[j] # x
    IN  IF first > n THEN list
        ELSE SubSeq(list, 1, first - 1) \o SubSeq(list, first + 1, n)

\* "for position in positions_to_remove: self.active_positions.remove(position)"
RECURSIVE RemoveAll(_, _)
RemoveAll(list, to_remove) ==
    IF to_remove = <<>> THEN list
    ELSE RemoveAll(ListRemove(list, Head(to_remove)), Tail(to_remove))

----------------------------------------------------------------------------
(* The state file. *)

\* A position as json.dump writes it.
JsonPosition(p) ==
    IF "sell_timestamp" \in DOMAIN p
    THEN [p EXCEPT !.created_timestamp = JsonTimestamp(@),
                   !.sell_timestamp = JsonTimestamp(@)]
    ELSE [p EXCEPT !.created_timestamp = JsonTimestamp(@)]

JsonPositions(list) == [i \in 1..Len(list) |-> JsonPosition(list[i])]

\* Variant: a state file that does not carry position_counter (sensitivity of C5).
StateDict_CounterNotSaved(ti, ap, ct, pcount, tpr, ss, fs, ldt) ==
    [total_invested |-> ti,
     active_positions |-> JsonPositions(ap),
     completed_trades |-> JsonPositions(ct),
     position_counter |-> 0,
     total_profit_realized |-> tpr,
     successful_sells |-> ss,
     failed_sells |-> fs,
     last_dca_time |-> ldt]

\* save_state: the dict it dumps (start_time and last_save_time, which
\* load_state never reads, are left out).
StateDict(ti, ap, ct, pcount, tpr, ss, fs, ldt) ==
    [total_invested |-> ti,
     active_positions |-> JsonPositions(ap),
     completed_trades |-> JsonPositions(ct),
     position_counter |-> pcount,
     total_profit_realized |-> tpr,
     successful_sells |-> ss,
     failed_sells |-> fs,
     last_dca_time |-> ldt]

\* save_state: the file after the write attempt w of the dict state
save_state(w, state) ==
    IF w = "written" THEN [kind |-> "snapshot", state |-> state]
    ELSE disk

\* Variant: a load that reactivates what it finds in the active list
\* (sensitivity of C8).
LoadedActive_Reactivated(p) ==
    [p EXCEPT !.created_timestamp = FromIsoformat(@), !.status = "active"]

\* load_state: an active position read back (created_timestamp only)
LoadedActive(p) == [p EXCEPT !.created_timestamp = FromIsoformat(@)]

\* load_state: a completed trade read back (created_timestamp, sell_timestamp)
LoadedTrade(p) ==
    IF "sell_timestamp" \in DOMAIN p
    THEN [p EXCEPT !.created_timestamp = FromIsoformat(@),
                   !.sell_timestamp = FromIsoformat(@)]
    ELSE [p EXCEPT !.created_timestamp = FromIsoformat(@)]

LoadedActives(list) == [i \in 1..Len(list) |-> LoadedActive(list[i])]

LoadedTrades(list) == [i \in 1..Len(list) |-> LoadedTrade(list[i])]

\* __init__: the ledger of a fresh process
FreshLedger ==
    [total_invested |-> 0,
     active_positions |-> <<>>,
     completed_trades |-> <<>>,
     position_counter |-> 0,
     total_profit_realized |-> Int2Rat(0),
     successful_sells |-> 0,
     failed_sells |-> 0,
     last_dca_time |-> 0]

\* load_state assigns the fields in this order (l.211-218) and then converts
\* the timestamps of the positions (l.221-229).
FieldOrder ==
    <<"total_invested", "active_positions", "completed_trades", "position_counter",
      "total_profit_realized", "successful_sells", "failed_sells", "last_dca_time">>

\* What can be wrong in a state file that json.load still parses: the value of
\* a field that float() or int() rejects, or the created_timestamp of the
\* first active position, a string fromisoformat rejects.
BadItems == {"total_invested", "position_counter", "last_dca_time", "created_timestamp"}

\* The field f was assigned before the conversion of the item bad raised.
AssignedBefore(f, bad) ==
    IF bad = "created_timestamp" THEN TRUE
    ELSE \E i, j \in 1..Len(FieldOrder) :
             FieldOrder[i] = f /\ FieldOrder[j] = bad /\ i < j

\* load_state on a file whose item bad cannot be converted: the exception
\* leaves the try block (l.234-236); the fields assigned until then keep the
\* values of the file (the lists as json.load returned them), the others
\* those of __init__.
load_state_partial(state, bad) ==
    [f \in DOMAIN FreshLedger |->
        IF AssignedBefore(f, bad) THEN state[f] ELSE FreshLedger[f]]

\* load_state: the ledger after reading the file d.  No file: nothing is
\* assigned.  A file json.load cannot parse: the exception is caught before
\* any field was assigned.
load_state(d) ==
    IF d.kind = "damaged" THEN load_state_partial(d.state, d.bad)
    ELSE IF d.kind = "snapshot"
    THEN [total_invested |-> d.state.total_invested,
          active_positions |-> LoadedActives(d.state.active_positions),
          completed_trades |-> LoadedTrades(d.state.completed_trades),
          position_counter |-> d.state.position_counter,
          total_profit_realized |-> d.state.total_profit_realized,
          successful_sells |-> d.state.successful_sells,
          failed_sells |-> d.state.failed_sells,
          last_dca_time |-> d.state.last_dca_time]
    ELSE FreshLedger

\* The ledger in memory, as one record.
Ledger ==
    [total_invested |-> total_invested,
     active_positions |-> active_positions,
     completed_trades |-> completed_trades,
     position_counter |-> position_counter,
     total_profit_realized |-> total_profit_realized,
     successful_sells |-> successful_sells,
     failed_sells |-> failed_sells,
     last_dca_time |-> last_dca_time]

----------------------------------------------------------------------------
(* History kept beside the program state. *)

\* One call of check_price_slippage: its arguments, the price it fetched
\* (0: none) and what it returned.
Slip(expected_price, fresh, trade_type) ==
    [expected |-> expected_price, fresh |-> fresh, trade_type |-> trade_type,
     result |-> check_price_slippage(expected_price, fresh, trade_type)]

NoSlip ==
    [expected |-> 0, fresh |-> 0, trade_type |-> "none",
     result |-> [ok |-> FALSE, price |-> 0]]

\* What a step did: the branch taken, the position, the gateway calls made,
\* the slippage check made in the step (NoSlip: none) and the wallet balance
\* execute_dca_purchase read in the step (-1: none read).
EvDca(op, id, calls, slip, wallet_balance) ==
    [op |-> op, id |-> id, calls |-> calls, slip |-> slip,
     wallet_balance |-> wallet_balance]
EvTrade(op, id, calls, slip) == EvDca(op, id, calls, slip, -1)
Ev(op, id, calls) == EvTrade(op, id, calls, NoSlip)

\* The pause latch that is_at_investment_cap and can_resume_dca describe:
\* set at or above max_investment + cap_tolerance, cleared strictly below
\* max_investment - cap_tolerance, kept in between.
NextLatch(latch, total) ==
    IF total >= config.max_investment + config.cap_tolerance THEN TRUE
    ELSE IF total < config.max_investment - config.cap_tolerance THEN FALSE
    ELSE latch

\* start_price and trail are history: the price fetched at the start of the
\* scan and the branches taken for the positions examined so far.
NoScan ==
    [current_price |-> 0, i |-> 0, positions_to_remove |-> <<>>,
     start_price |-> 0, trail |-> <<>>]

----------------------------------------------------------------------------
(* Init: a process just constructed and initialized, no state file yet. *)

LedgerInit ==
    /\ now = 1
    /\ running = TRUE
    /\ pc = "cycle"
    /\ total_invested = 0
    /\ active_positions = <<>>
    /\ completed_trades = <<>>
    /\ position_counter = 0
    /\ total_profit_realized = Int2Rat(0)
    /\ successful_sells = 0
    /\ failed_sells = 0
    /\ last_dca_time = 0
    /\ disk = [kind |-> "none"]
    /\ scan = NoScan
    /\ event = Ev("init", 0, <<>>)
    /\ maxIssued = 0
    /\ closedIds = {}
    /\ capPaused = FALSE
    /\ writeFailed = FALSE
    /\ restored = FALSE
    /\ lastOpenAt = 0

Init ==
    /\ config \in Configs
    /\ LedgerInit

InitScenario ==
    /\ config = ScenarioConfig
    /\ LedgerInit

InitLoad ==
    /\ config = LoadConfig
    /\ LedgerInit

InitCeiling ==
    /\ config = CeilingConfig
    /\ LedgerInit

\* The state file of a bot that bought position 1 at price 100 at time 1 and
\* position 2 at price 101 at time 2 (ScanConfig), as save_state wrote it.
ScanStateFile ==
    LET p1 == [NewPosition(1, 100) EXCEPT !.created_timestamp = Datetime(1)]
        p2 == [NewPosition(2, 101) EXCEPT !.created_timestamp = Datetime(2)]
    IN  [kind |-> "snapshot",
         state |-> StateDict(2 * config.dca_amount, <<p1, p2>>, <<>>, 2,
                             Int2Rat(0), 0, 0, 2)]

\* A process constructed and initialized at time 3 with that state file.
InitScan ==
    /\ config = ScanConfig
    /\ now = 3
    /\ running = TRUE
    /\ pc = "cycle"
    /\ disk = ScanStateFile
    /\ total_invested = load_state(disk).total_invested
    /\ active_positions = load_state(disk).active_positions
    /\ completed_trades = load_state(disk).completed_trades
    /\ position_counter = load_state(disk).position_counter
    /\ total_profit_realized = load_state(disk).total_profit_realized
    /\ successful_sells = load_state(disk).successful_sells
    /\ failed_sells = load_state(disk).failed_sells
    /\ last_dca_time = load_state(disk).last_dca_time
    /\ scan = NoScan
    /\ event = Ev("restart", 0, <<>>)
    /\ maxIssued = 2
    /\ closedIds = {}
    /\ capPaused = FALSE
    /\ writeFailed = FALSE
    /\ restored = TRUE
    /\ lastOpenAt = 2

----------------------------------------------------------------------------
(* micro_grid_cycle, phase 1, with execute_dca_purchase. *)

\* Variant: a skipped purchase records the time as an executed one does
\* (sensitivity of C22).
DcaWithoutOpen_StampsTime(op, calls, slip, wallet_balance) ==
    /\ event' = EvDca(op, 0, calls, slip, wallet_balance)
    /\ last_dca_time' = now
    /\ UNCHANGED <<total_invested, active_positions, completed_trades, position_counter,
                   total_profit_realized, successful_sells, failed_sells>>
    /\ UNCHANGED <<disk, maxIssued, closedIds, capPaused, writeFailed, restored, lastOpenAt>>

\* execute_dca_purchase returned without calling stake_sn73, or the stake failed
DcaWithoutOpen(op, calls, slip, wallet_balance) ==
    /\ event' = EvDca(op, 0, calls, slip, wallet_balance)
    /\ UNCHANGED <<ledgerVars, disk, maxIssued, closedIds, capPaused, writeFailed, restored, lastOpenAt>>

\* execute_dca_purchase, "if success:": the ledger update and save_state
DcaOpen(current_price, calls, w, slip, wallet_balance) ==
    LET position == NewPosition(position_counter + 1, current_price)
    IN  /\ last_dca_time' = now
        /\ position_counter' = position_counter + 1
        /\ active_positions' = Append(active_positions, position)
        /\ total_invested' = InvestedAfterOpen
        /\ UNCHANGED <<completed_trades, total_profit_realized, successful_sells,
                       failed_sells>>
        /\ disk' = save_state(w, StateDict(total_invested', active_positions',
                                           completed_trades', position_counter',
                                           total_profit_realized', successful_sells',
                                           failed_sells', last_dca_time'))
        /\ event' = EvDca("dca_opened", position.id, calls, slip, wallet_balance)
        /\ maxIssued' = IF position.id > maxIssued THEN position.id ELSE maxIssued
        /\ capPaused' = NextLatch(capPaused, total_invested')
        /\ writeFailed' = (writeFailed \/ w # "written")
        /\ lastOpenAt' = now
        /\ UNCHANGED <<closedIds, restored>>

execute_dca_purchase ==
    \E info \in PriceChoices :
        IF info = 0 THEN DcaWithoutOpen("dca_no_price", <<>>, NoSlip, -1)
        ELSE IF config.max_entry_price # 0 /\ info > config.max_entry_price
        THEN DcaWithoutOpen("dca_price_too_high", <<>>, NoSlip, -1)
        ELSE \E wallet_balance \in BalanceChoices :
            IF get_available_balance_for_trading(wallet_balance) < config.dca_amount
            THEN DcaWithoutOpen("dca_insufficient", <<>>, NoSlip, wallet_balance)
            ELSE \E fresh \in PriceChoices :
                LET slip == Slip(info, fresh, "buy")
                    slippage == slip.result
                IN  IF ~slippage.ok
                    THEN DcaWithoutOpen("dca_slippage", <<>>, slip, wallet_balance)
                    ELSE \E r \in StakeChoices :
                        IF r.success
                        THEN \E w \in WriteChoices :
                                 DcaOpen(slippage.price, r.calls, w, slip, wallet_balance)
                        ELSE DcaWithoutOpen("dca_failed", r.calls, slip, wallet_balance)

DcaPhase ==
    /\ pc = "cycle"
    /\ running
    /\ IF DcaGate = "purchase"
       THEN execute_dca_purchase
       ELSE DcaWithoutOpen(DcaGate, <<>>, NoSlip, -1)
    /\ pc' = "sells"
    /\ UNCHANGED <<config, now, running, scan>>

----------------------------------------------------------------------------
(* check_and_execute_sells. *)

\* The early returns and the price fetch at the top.
SellsBegin ==
    /\ pc = "sells"
    /\ IF active_positions = <<>>
       THEN /\ pc' = "status"
            /\ scan' = NoScan
            /\ event' = Ev("sells_none", 0, <<>>)
       ELSE \E info \in PriceChoices :
            IF info = 0
            THEN /\ pc' = "status"
                 /\ scan' = NoScan
                 /\ event' = Ev("sells_no_price", 0, <<>>)
            ELSE /\ pc' = "scan"
                 /\ scan' = [current_price |-> info, i |-> 1,
                             positions_to_remove |-> <<>>,
                             start_price |-> info, trail |-> <<>>]
                 /\ event' = Ev("sells_begin", 0, <<>>)
    /\ UNCHANGED <<config, now, running, ledgerVars, disk, maxIssued, closedIds,
                   capPaused, writeFailed, restored, lastOpenAt>>

\* Variant: a pass that skips the position counts as a failed sale
\* (sensitivity of C23).
ScanSkip_CountsFailure(op, id, current_price, slip) ==
    /\ scan' = [scan EXCEPT !.i = @ + 1, !.current_price = current_price,
                            !.trail = Append(@, op)]
    /\ event' = EvTrade(op, id, <<>>, slip)
    /\ failed_sells' = failed_sells + 1
    /\ UNCHANGED <<total_invested, active_positions, completed_trades, position_counter,
                   total_profit_realized, successful_sells, last_dca_time>>
    /\ UNCHANGED <<disk, maxIssued, closedIds, capPaused, writeFailed, restored, lastOpenAt>>

\* One pass of the loop body that changes nothing in the ledger.
ScanSkip(op, id, current_price, slip) ==
    /\ scan' = [scan EXCEPT !.i = @ + 1, !.current_price = current_price,
                            !.trail = Append(@, op)]
    /\ event' = EvTrade(op, id, <<>>, slip)
    /\ UNCHANGED <<ledgerVars, disk, maxIssued, closedIds, capPaused, writeFailed, restored, lastOpenAt>>

\* "if sell_success:" the position becomes sold in place, joins completed_trades
\* and positions_to_remove, the metrics move, save_state runs.
ScanSold(position, current_price, calls, w, slip) ==
    LET sold == SoldPosition(position, current_price)
    IN  /\ active_positions' = [active_positions EXCEPT ![scan.i] = sold]
        /\ completed_trades' = Append(completed_trades, sold)
        /\ total_profit_realized' = RatAdd(total_profit_realized, sold.profit_tao)
        /\ successful_sells' = successful_sells + 1
        /\ total_invested' = InvestedAfterSell(position)
        /\ UNCHANGED <<position_counter, failed_sells, last_dca_time>>
        /\ disk' = save_state(w, StateDict(total_invested', active_positions',
                                           completed_trades', position_counter',
                                           total_profit_realized', successful_sells',
                                           failed_sells', last_dca_time'))
        /\ scan' = [current_price |-> current_price, i |-> scan.i + 1,
                    positions_to_remove |-> Append(scan.positions_to_remove, sold),
                    start_price |-> scan.start_price,
                    trail |-> Append(scan.trail, "sell_sold")]
        /\ event' = EvTrade("sell_sold", position.id, calls, slip)
        /\ closedIds' = closedIds \cup {position.id}
        /\ capPaused' = NextLatch(capPaused, total_invested')
        /\ writeFailed' = (writeFailed \/ w # "written")
        /\ UNCHANGED <<maxIssued, restored, lastOpenAt>>

\* "else: self.failed_sells += 1" (no save_state here)
ScanFailed(position, current_price, calls, slip) ==
    /\ failed_sells' = failed_sells + 1
    /\ UNCHANGED <<total_invested, active_positions, completed_trades, position_counter,
                   total_profit_realized, successful_sells, last_dca_time>>
    /\ scan' = [scan EXCEPT !.i = @ + 1, !.current_price = current_price,
                            !.trail = Append(@, "sell_failed")]
    /\ event' = EvTrade("sell_failed", position.id, calls, slip)
    /\ UNCHANGED <<disk, maxIssued, closedIds, capPaused, writeFailed, restored, lastOpenAt>>

\* "current_price <= stop_loss_price" of the stop-loss branch
StopLossHit(position, current_price) ==
    current_price * 100 <= position.buy_price * (100 - Abs(config.stop_loss_percent))

\* The body of "for position in self.active_positions" for the position at scan.i.
\* The stop-loss branch prints a message and does nothing else.
ScanPosition ==
    /\ pc = "scan"
    /\ scan.i <= Len(active_positions)
    /\ LET position == active_positions[scan.i]
           current_price == scan.current_price
       IN  IF position.status # "active"
           THEN ScanSkip("sell_not_active", position.id, current_price, NoSlip)
           ELSE IF ~RatGeq(Int2Rat(current_price), position.sell_target_price)
           THEN IF config.stop_loss_percent > 0 /\ StopLossHit(position, current_price)
                THEN ScanSkip("sell_stop_loss", position.id, current_price, NoSlip)
                ELSE ScanSkip("sell_below_target", position.id, current_price, NoSlip)
           ELSE \E fresh \in PriceChoices :
               LET slip == Slip(current_price, fresh, "sell")
                   slippage == slip.result
               IN  IF ~slippage.ok
                   THEN ScanSkip("sell_slippage", position.id, current_price, slip)
                   ELSE \E r \in UnstakeChoices :
                       IF r.success
                       THEN \E w \in WriteChoices :
                                ScanSold(position, slippage.price, r.calls, w, slip)
                       ELSE ScanFailed(position, slippage.price, r.calls, slip)
    /\ UNCHANGED <<config, now, running, pc>>

\* After the loop: the sold positions leave active_positions (nothing is saved).
ScanEnd ==
    /\ pc = "scan"
    /\ scan.i > Len(active_positions)
    /\ active_positions' = RemoveAll(active_positions, scan.positions_to_remove)
    /\ scan' = NoScan
    /\ pc' = "status"
    /\ event' = Ev("sells_end", 0, <<>>)
    /\ UNCHANGED <<config, now, running, total_invested, completed_trades,
                   position_counter, total_profit_realized, successful_sells,
                   failed_sells, last_dca_time, disk, maxIssued, closedIds, capPaused,
                   writeFailed, restored, lastOpenAt>>

----------------------------------------------------------------------------
(* micro_grid_cycle phase 3, the wait in run(), stop(), and a new process. *)

\* The ways micro_grid_cycle can end: print_status returned; print_status
\* raised (get_wallet_balance failed after its retries) and the reconnect
\* in the except branch worked; the reconnect raised too.
CycleOutcomes == {"status", "reconnected", "reconnect_failed"}

\* Variant: a failed reconnect ends the loop (sensitivity of C24).
should_continue_StopOnReconnectFailure(outcome) == outcome # "reconnect_failed"

\* micro_grid_cycle: the value it returns ("return True" at l.587, l.602, l.605),
\* which run() stores in should_continue
should_continue(outcome) == TRUE

\* Variant: a wait that always lasts the whole interval (sensitivity of C25).
wait_time_Full(is_running) == 1

\* run(): the check intervals the wait lasts.  Its loop sleeps one second at
\* a time and breaks as soon as self.running is False.
wait_time(is_running) == IF is_running THEN 1 ELSE 0

\* print_status and the end of micro_grid_cycle, then run(): "if not
\* should_continue: break".
PrintStatus ==
    /\ pc = "status"
    /\ \E outcome \in CycleOutcomes :
           /\ event' = Ev(outcome, 0, <<>>)
           /\ pc' = IF should_continue(outcome) THEN "sleep" ELSE "stopped"
    /\ UNCHANGED <<config, now, running, ledgerVars, disk, scan, maxIssued, closedIds,
                   capPaused, writeFailed, restored, lastOpenAt>>

\* run(): the wait of check_interval_minutes, left early when running is False
Sleep ==
    /\ pc = "sleep"
    /\ now + wait_time(running) <= TimeLimit
    /\ now' = now + wait_time(running)
    /\ pc' = "cycle"
    /\ event' = Ev("sleep", 0, <<>>)
    /\ UNCHANGED <<config, running, ledgerVars, disk, scan, maxIssued, closedIds,
                   capPaused, writeFailed, restored, lastOpenAt>>

\* run(): "while self.running" is false, the loop ends
Exit ==
    /\ pc = "cycle"
    /\ ~running
    /\ pc' = "stopped"
    /\ event' = Ev("exit", 0, <<>>)
    /\ UNCHANGED <<config, now, running, ledgerVars, disk, scan, maxIssued, closedIds,
                   capPaused, writeFailed, restored, lastOpenAt>>

\* stop(), called by the signal handler.  run() reads self.running only in the
\* wait and at the top of the loop, so a signal during a cycle acts as one that
\* arrives when the wait begins.
Stop ==
    /\ running
    /\ pc = "sleep"
    /\ running' = FALSE
    /\ event' = Ev("stop", 0, <<>>)
    /\ UNCHANGED <<config, now, pc, ledgerVars, disk, scan, maxIssued, closedIds,
                   capPaused, writeFailed, restored, lastOpenAt>>

\* The process ends (it stopped, or it was killed at an await) and the bot is
\* started again: __init__, then initialize() calls load_state.
Restart ==
    LET loaded == load_state(disk)
    IN  /\ total_invested' = loaded.total_invested
        /\ active_positions' = loaded.active_positions
        /\ completed_trades' = loaded.completed_trades
        /\ position_counter' = loaded.position_counter
        /\ total_profit_realized' = loaded.total_profit_realized
        /\ successful_sells' = loaded.successful_sells
        /\ failed_sells' = loaded.failed_sells
        /\ last_dca_time' = loaded.last_dca_time
        /\ running' = TRUE
        /\ pc' = "cycle"
        /\ scan' = NoScan
        /\ event' = Ev("restart", 0, <<>>)
        /\ capPaused' = NextLatch(FALSE, loaded.total_invested)
        /\ restored' = TRUE
        /\ UNCHANGED <<config, now, disk, maxIssued, closedIds, writeFailed, lastOpenAt>>

\* While the bot is not running, the state file is changed from outside (edited
\* by hand, written by another version) so that the item bad cannot be
\* converted any more.  Explored for the file the first process leaves.
DamageStateFile ==
    /\ pc = "stopped"
    /\ ~restored
    /\ disk.kind = "snapshot"
    /\ \E bad \in BadItems :
           /\ bad = "created_timestamp" => disk.state.active_positions # <<>>
           /\ disk' = [kind |-> "damaged", state |-> disk.state, bad |-> bad]
    /\ event' = Ev("file_damaged", 0, <<>>)
    /\ UNCHANGED <<config, now, running, pc, ledgerVars, scan, maxIssued, closedIds,
                   capPaused, writeFailed, restored, lastOpenAt>>

\* One call check_price_slippage(expected_price, trade_type) on its own, the
\* gateway reporting the price fresh (0: none).
SlipExpected == 98..102
SlipFresh == {0} \cup 94..106

CheckPriceSlippage ==
    /\ \E expected_price \in SlipExpected, fresh \in SlipFresh,
          trade_type \in {"buy", "sell"} :
           event' = EvTrade("slippage_checked", 0, <<>>,
                            Slip(expected_price, fresh, trade_type))
    /\ UNCHANGED <<config, now, running, pc, ledgerVars, disk, scan, maxIssued,
                   closedIds, capPaused, writeFailed, restored, lastOpenAt>>

Next ==
    \/ DcaPhase
    \/ SellsBegin
    \/ ScanPosition
    \/ ScanEnd
    \/ PrintStatus
    \/ Sleep
    \/ Exit
    \/ Stop
    \/ Restart

Spec == Init /\ [][Next]_vars

\* The docstring configuration against the scripted gateway.
SpecScenario == InitScenario /\ [][Next]_vars

\* The stop-loss configuration, started from two positions.
SpecScan == InitScan /\ [][Next]_vars

\* One process from start to stop: the steps of run() and the signal.  The
\* event loop resumes the coroutine whenever the call it awaits has returned
\* or raised, so the next step of run() is always eventually taken.
RunStep ==
    \/ DcaPhase
    \/ SellsBegin
    \/ ScanPosition
    \/ ScanEnd
    \/ PrintStatus
    \/ Sleep
    \/ Exit

NextRun ==
    \/ RunStep
    \/ Stop

SpecRun == InitScan /\ [][NextRun]_vars /\ WF_vars(RunStep)

\* A run whose state file fails to load at a restart.
NextLoad ==
    \/ Next
    \/ DamageStateFile

SpecLoad == InitLoad /\ [][NextLoad]_vars

\* The configuration with a price ceiling.
SpecCeiling == InitCeiling /\ [][Next]_vars

\* check_price_slippage alone, over SlipExpected x SlipFresh x {buy, sell}.
SpecSlippage == InitScenario /\ [][CheckPriceSlippage]_vars

----------------------------------------------------------------------------
(* Properties. *)

\* The snapshot save_state would write from the ledger now in memory.
SnapshotOfMemory ==
    [kind |-> "snapshot",
     state |-> StateDict(total_invested, active_positions, completed_trades,
                         position_counter, total_profit_realized, successful_sells,
                         failed_sells, last_dca_time)]

\* Sum of tao_invested over the entries of list, from index i on, whose status
\* is active.
RECURSIVE SumInvested(_, _)
SumInvested(list, i) ==
    IF i > Len(list) THEN 0
    ELSE (IF list[i].status = "active" THEN list[i].tao_invested ELSE 0)
         + SumInvested(list, i + 1)

\* C1: in every reachable state total_invested equals the sum of tao_invested
\* over the positions whose status is active.
C1_TotalInvestedIsActiveSum ==
    total_invested = SumInvested(active_positions, 1)

\* C1 case: a sale has just been accounted while another position stays active.
C1_Witness ==
    /\ event.op = "sell_sold"
    /\ Len(active_positions) = 2
    /\ total_invested = config.dca_amount

\* C2: once total_invested has reached max_investment + cap_tolerance, the open
\* decision of every later tick refuses to open until total_invested has dropped
\* strictly below max_investment - cap_tolerance (capPaused is that latch).
C2_CapHysteresis ==
    (pc = "cycle" /\ running /\ capPaused) => DcaGate # "purchase"

\* C3: in every state reached after a successful open,
\* total_invested <= max_investment + cap_tolerance.
C3_CapAfterOpen ==
    event.op = "dca_opened"
        => total_invested <= config.max_investment + config.cap_tolerance

\* C4: cap 5.0, tolerance 0.1, dca_amount 0.05.  100 opens without a close give
\* total_invested 5.0 and opens are paused; after one close total_invested is
\* 4.95 and the open decision still refuses; after a second close it is 4.90
\* and the open decision allows a purchase.
C4_DocstringScenario ==
    /\ (position_counter = 100 /\ successful_sells = 0)
           => (total_invested = 500 /\ DcaGate # "purchase")
    /\ (position_counter = 100 /\ successful_sells = 1 /\ pc = "cycle" /\ running)
           => (total_invested = 495 /\ DcaGate # "purchase")
    /\ (position_counter = 100 /\ successful_sells = 2 /\ pc = "cycle" /\ running
        /\ is_time_for_dca)
           => (total_invested = 490 /\ DcaGate = "purchase")

C6_SnapshotCurrentAtTickEnd ==
    (pc = "sleep" /\ ~writeFailed)
        => IF disk.kind = "none" THEN Ledger = FreshLedger
           ELSE disk = SnapshotOfMemory

\* C7: for every reachable ledger state S, load_state of the snapshot
\* save_state writes from S is S.
C7_RoundTrip ==
    load_state(SnapshotOfMemory) = Ledger

C9_MutationOnlyOnSuccess ==
    event.op \in {"dca_opened", "sell_sold"}
        => event.calls[Len(event.calls)] = "success"

\* C10: every gateway call that was followed by another attempt in the same
\* step had failed transiently; after a definitive rejection no attempt follows.
C10_RetryOnlyAfterTransient ==
    \A a \in 1..(Len(event.calls) - 1) : event.calls[a] = "transient_error"

\* The last element of a non-empty list.
Last(list) == list[Len(list)]

\* The gateway calls of a step all raised, up to the last attempt allowed.
AllAttemptsRaised(calls) ==
    /\ Len(calls) = max_retries
    /\ \A a \in 1..Len(calls) : Raises(calls[a])

\* The number of entries of active_positions whose status is active.
ActiveCount ==
    Cardinality({k \in 1..Len(active_positions) : active_positions[k].status = "active"})

\* C11: a deposit that fails transiently on attempts 1 and 2 and succeeds on
\* attempt 3 opens a position, and the step is one ledger mutation: one
\* position appended, position_counter + 1, total_invested + dca_amount.
C11_OneMutationAfterRetries ==
    [][(/\ event'.op \in {"dca_opened", "dca_failed"}
        /\ event'.calls = <<"transient_error", "transient_error", "success">>)
       => (/\ event'.op = "dca_opened"
           /\ position_counter' = position_counter + 1
           /\ active_positions' = Append(active_positions, Last(active_positions'))
           /\ total_invested' = total_invested + config.dca_amount)]_vars

\* C11 case: a position was opened on the third attempt.
C11_Witness ==
    /\ event.op = "dca_opened"
    /\ event.calls = <<"transient_error", "transient_error", "success">>

\* C12: when all 3 deposit attempts fail no position is created, total_invested,
\* position_counter, last_dca_time, active_positions and completed_trades are
\* unchanged by the open step; no open step makes more than 3 deposit calls.
C12_FailedOpenLeavesLedger ==
    [][/\ (event'.op \in {"dca_opened", "dca_failed"} /\ AllAttemptsRaised(event'.calls))
          => (/\ event'.op = "dca_failed"
              /\ UNCHANGED <<total_invested, position_counter, last_dca_time,
                             active_positions, completed_trades>>)
       /\ event'.op \in {"dca_opened", "dca_failed"}
          => Len(event'.calls) <= max_retries]_vars

\* C12 case: a purchase whose three deposit attempts all failed.
C12_Witness ==
    /\ event.op = "dca_failed"
    /\ AllAttemptsRaised(event.calls)

\* C13: when the withdrawal for a position fails after its retries, failed_sells
\* grows by one, the position stays active in active_positions, total_invested,
\* total_profit_realized and successful_sells are unchanged (so a later scan
\* examines the position again).
C13_FailedCloseKeepsPosition ==
    [][(event'.op \in {"sell_sold", "sell_failed"} /\ AllAttemptsRaised(event'.calls))
       => (/\ event'.op = "sell_failed"
           /\ failed_sells' = failed_sells + 1
           /\ active_positions' = active_positions
           /\ active_positions[scan.i].id = event'.id
           /\ active_positions[scan.i].status = "active"
           /\ UNCHANGED <<total_invested, total_profit_realized, successful_sells>>)]_vars

\* C13 case: the only position ever opened failed its withdrawal in one scan and
\* is sold in a later one.
C13_Witness ==
    /\ event.op = "sell_sold"
    /\ event.id = 1
    /\ maxIssued = 1
    /\ failed_sells >= 1

\* C14: every step that calls the gateway for a deposit or a withdrawal made,
\* just before, a slippage check that accepted, on a price fetched after the
\* decision price; the trade is booked at that fetched price.
C14_TradeAfterFreshCheck ==
    event.calls # <<>>
        => /\ event.slip.result.ok
           /\ event.slip.fresh # 0
           /\ event.slip.result.price = event.slip.fresh
           /\ event.slip.trade_type
                  = (IF event.op \in {"dca_opened", "dca_failed"} THEN "buy" ELSE "sell")
           /\ event.op = "dca_opened"
                  => Last(active_positions).buy_price = event.slip.fresh
           /\ event.op = "sell_sold"
                  => Last(completed_trades).sell_price = event.slip.fresh

\* C14 case: a sale made at a fetched price that differs from the decision price.
C14_Witness ==
    /\ event.op = "sell_sold"
    /\ event.slip.fresh # event.slip.expected
    /\ Last(completed_trades).sell_price = event.slip.fresh

\* C15: with a fresh price f, check_price_slippage(expected, direction) rejects
\* iff |f - expected| / expected * 100 > max_slippage_percent, or buy and
\* f > expected * (1 + tolerance/100), or sell and f < expected * (1 - tolerance/100);
\* otherwise it accepts and returns f.
C15_SlippageRule ==
    (event.op = "slippage_checked" /\ event.slip.fresh # 0)
        => LET e == event.slip.expected
               f == event.slip.fresh
               d == event.slip.trade_type
               r == event.slip.result
           IN  /\ ~r.ok <=> \/ Abs(f - e) * 100 > max_slippage_percent * e
                            \/ d = "buy" /\ f * 100 > e * (100 + price_check_tolerance)
                            \/ d = "sell" /\ f * 100 < e * (100 - price_check_tolerance)
               /\ r.ok => r.price = f
               /\ (e = 100 /\ f = 103) => ~r.ok
               /\ (e = 100 /\ f = 101) => (r.ok /\ r.price = 101)

\* C15 case: expected 1.00, fresh 1.01, buy: accepted with price 1.01.
C15_Witness ==
    /\ event.op = "slippage_checked"
    /\ event.slip.expected = 100
    /\ event.slip.fresh = 101
    /\ event.slip.trade_type = "buy"
    /\ event.slip.result = [ok |-> TRUE, price |-> 101]

\* C16: within one scan the price compared against sell_target_price is, for
\* every active position, the price fetched at the start of the scan.
C16_ScanPriceShared ==
    (/\ pc = "scan"
     /\ scan.i <= Len(active_positions)
     /\ active_positions[scan.i].status = "active")
        => scan.current_price = scan.start_price

\* C17: in a scan every active position whose target is reached by the price of
\* the scan gets its own slippage check (and, if accepted, its withdrawal
\* attempt), whatever happened to the positions examined before it.
C17_EveryReachedTargetChecked ==
    \A k \in 1..Len(scan.trail) :
        (/\ scan.trail[k] # "sell_not_active"
         /\ RatGeq(Int2Rat(scan.start_price), active_positions[k].sell_target_price))
            => scan.trail[k] \in {"sell_slippage", "sell_failed", "sell_sold"}

\* C18: with stop_loss_percent configured, the step that examines an active
\* position at a price <= buy_price * (1 - stop_loss_percent/100) makes the
\* slippage check of the withdrawal path.
C18_StopLossCloses ==
    event.op = "sell_stop_loss" => event.slip # NoSlip

\* C19: no deposit is attempted when less than dca_interval has elapsed since
\* the last position was opened, restarts included; last_dca_time changes only
\* when a deposit succeeded (or a restart restores it); with no purchase ever
\* made the time gate is open.
C19_TimeGate ==
    [][/\ event'.op \in {"dca_opened", "dca_failed"}
          => (lastOpenAt = 0 \/ now - lastOpenAt >= config.dca_interval)
       /\ last_dca_time' # last_dca_time
          => \/ event'.op = "restart"
             \/ event'.op = "dca_opened" /\ Last(event'.calls) = "success"
       /\ maxIssued = 0 => is_time_for_dca]_vars

\* C20: the number of positions with status active never exceeds max_positions;
\* at the start of a tick where it has reached max_positions the gate does not
\* allow a purchase.
C20_MaxPositions ==
    /\ ActiveCount <= config.max_positions
    /\ (pc = "cycle" /\ ActiveCount >= config.max_positions) => DcaGate # "purchase"

\* C20 case: the gate has just refused a purchase because of max_positions.
C20_Witness ==
    /\ event.op = "max_positions"
    /\ ActiveCount = config.max_positions

\* C21: a purchase step that read a wallet balance with balance - fee reserve
\* < dca_amount issues no deposit: it ends as "insufficient balance", makes no
\* slippage check and no gateway call, and leaves the ledger and the state
\* file as they were.
C21_NoDepositWithoutBalance ==
    [][(/\ event'.wallet_balance # -1
        /\ event'.wallet_balance - auto_fee_reserve < config.dca_amount)
       => (/\ event'.op = "dca_insufficient"
           /\ event'.calls = <<>>
           /\ event'.slip = NoSlip
           /\ UNCHANGED <<ledgerVars, disk>>)]_vars

\* C21 case: the wallet holds 0.07, more than dca_amount but less than
\* dca_amount plus the reserve, and the purchase was skipped.
C21_Witness ==
    /\ event.op = "dca_insufficient"
    /\ event.wallet_balance = 7

\* C22: with max_entry_price configured, a purchase step whose fetched price
\* exceeds it makes no slippage check and no deposit and leaves every ledger
\* field, last_dca_time included, and the state file unchanged; a purchase
\* step that goes on to the slippage check had a price within the ceiling.
\* The gate that let the step in is still open after it, and stays open
\* until the process opens a position: the next tick evaluates the purchase
\* again.
C22_CeilingSkipsThisCycleOnly ==
    [][/\ event'.op = "dca_price_too_high"
          => (/\ config.max_entry_price # 0
              /\ event'.calls = <<>>
              /\ event'.slip = NoSlip
              /\ UNCHANGED <<ledgerVars, disk>>
              /\ DcaGate' = "purchase")
       /\ (config.max_entry_price # 0 /\ event'.slip.trade_type = "buy")
          => event'.slip.expected <= config.max_entry_price
       /\ (DcaGate = "purchase" /\ event'.op \notin {"dca_opened", "restart"})
          => DcaGate' = "purchase"]_vars

\* C22 case: a purchase skipped for the price while a position opened earlier
\* is held, its last_dca_time kept.
C22_Witness ==
    /\ event.op = "dca_price_too_high"
    /\ position_counter = 1
    /\ last_dca_time = 1
    /\ now = 2

\* C23: a step whose slippage check rejected, for a buy or for a sell, the case
\* where no fresh price was obtained included, makes no gateway call and
\* changes no ledger field: no position is created or closed, total_invested,
\* position_counter, last_dca_time, successful_sells and failed_sells are
\* unchanged (the state file is not written either).
C23_SlippageRejectionChangesNothing ==
    [][(event'.slip # NoSlip /\ ~event'.slip.result.ok)
       => (/\ event'.op = (IF event'.slip.trade_type = "buy"
                            THEN "dca_slippage" ELSE "sell_slippage")
           /\ event'.calls = <<>>
           /\ UNCHANGED <<ledgerVars, disk>>)]_vars

\* C23 case: a position had reached its target and the check before its sale
\* could not fetch a price.
C23_Witness ==
    /\ event.op = "sell_slippage"
    /\ event.slip.fresh = 0
    /\ event.slip.expected = 116

\* C24: whatever failed inside a tick (the purchase, a sale, the status, the
\* reconnect), micro_grid_cycle reports "continue" and the tick ends in the
\* wait; the loop ends only after stop was requested; and while stop is not
\* requested the tick that follows is eventually started (up to the last
\* check interval explored).
C24_LoopSurvivesFailures ==
    /\ [][/\ event'.op \in CycleOutcomes => (should_continue(event'.op) /\ pc' = "sleep")
          /\ pc' = "stopped" => ~running]_vars
    /\ \A t \in 1..(ScanTime - 1) :
           (now = t /\ running) ~> (~running \/ (pc = "cycle" /\ now = t + 1))

\* C24 case: a tick is started after a tick in which the withdrawal for a
\* position failed on all its attempts.
C24_Witness ==
    /\ pc = "cycle"
    /\ running
    /\ event.op = "sleep"
    /\ now = 4
    /\ failed_sells >= 1

\* C25: once stop is requested in the wait, the wait ends without the clock
\* reaching the next check interval, no step of a tick follows (the only steps
\* are the end of the wait and the end of the loop, the ledger and the state
\* file stay as they are), and the loop terminates.
C25_StopEndsWaitAndLoop ==
    /\ [][~running => (/\ event'.op \in {"sleep", "exit"}
                        /\ now' = now
                        /\ UNCHANGED <<ledgerVars, disk>>)]_vars
    /\ ~running ~> (pc = "stopped")

\* C25 case: the loop has ended after a stop requested in the first wait.
C25_Witness ==
    /\ pc = "stopped"
    /\ ~running
    /\ event.op = "exit"
    /\ now = 3

\* The formulas of C26 for one position p, by cross-multiplication: with
\* c = tao_invested, p = buy_price and t = profit_target_percent,
\* alpha_amount = c / p and sell_target_price = p * (1 + t/100); once sold at
\* x = sell_price, tao_received = alpha_amount * x and
\* profit_tao = tao_received - c.
PositionArithmetic(p) ==
    /\ p.alpha_amount.n * p.buy_price = p.tao_invested * p.alpha_amount.d
    /\ p.sell_target_price.n * 100
           = p.buy_price * (100 + config.profit_target_percent) * p.sell_target_price.d
    /\ p.status = "sold"
          => /\ p.tao_received.n * p.alpha_amount.d
                    = p.alpha_amount.n * p.sell_price * p.tao_received.d
             /\ p.profit_tao.n * p.tao_received.d
                    = (p.tao_received.n - p.tao_invested * p.tao_received.d) * p.profit_tao.d

\* The example of C26 up to the sale: c = 0.05, t = 15 %, p = 1.0 gives
\* alpha_amount 0.05 and target 1.15.
ExampleOpen(p) ==
    (p.tao_invested = 5 /\ p.buy_price = 100 /\ config.profit_target_percent = 15)
        => (p.alpha_amount = [n |-> 1, d |-> 20] /\ p.sell_target_price = [n |-> 115, d |-> 1])

\* P holds of every position the ledger holds.
AllPositionsSatisfy(P(_)) ==
    /\ \A k \in 1..Len(active_positions) : P(active_positions[k])
    /\ \A k \in 1..Len(completed_trades) : P(completed_trades[k])

\* C26 as stated: the four formulas hold for every position, the price of an
\* open is the fresh price the slippage check accepted, and in the example a
\* close at 1.16 gives profit 0.003 (3/10 of 0.01 TAO).
C26_PositionArithmetic ==
    /\ AllPositionsSatisfy(PositionArithmetic)
    /\ AllPositionsSatisfy(ExampleOpen)
    /\ event.op = "dca_opened" => Last(active_positions).buy_price = event.slip.fresh
    /\ \A k \in 1..Len(completed_trades) :
           LET p == completed_trades[k]
           IN  (p.tao_invested = 5 /\ p.buy_price = 100 /\ p.sell_price = 116)
                   => p.profit_tao = [n |-> 3, d |-> 10]

\* C26, amended: the same with the profit of the example 0.008 (8/10 of
\* 0.01 TAO), which is 0.05 * 1.16 - 0.05.
C26_PositionArithmeticAmended ==
    /\ AllPositionsSatisfy(PositionArithmetic)
    /\ AllPositionsSatisfy(ExampleOpen)
    /\ event.op = "dca_opened" => Last(active_positions).buy_price = event.slip.fresh
    /\ \A k \in 1..Len(completed_trades) :
           LET p == completed_trades[k]
           IN  (p.tao_invested = 5 /\ p.buy_price = 100 /\ p.sell_price = 116)
                   => p.profit_tao = [n |-> 4, d |-> 5]

\* C26 case: the position of the example, opened by this run at 1.0, has just
\* been closed at 1.16.
C26_Witness ==
    /\ event.op = "sell_sold"
    /\ Last(completed_trades).buy_price = 100
    /\ Last(completed_trades).tao_invested = 5
    /\ Last(completed_trades).sell_price = 116
    /\ Last(completed_trades).tao_received = [n |-> 29, d |-> 5]

\* C27: every completed trade was sold at its target or better:
\* sell_price >= sell_target_price, so the profit realized is at least
\* profit_target_percent of the amount invested.
C27_SoldAtTargetOrBetter ==
    \A k \in 1..Len(completed_trades) :
        LET p == completed_trades[k]
        IN  /\ RatGeq(Int2Rat(p.sell_price), p.sell_target_price)
            /\ RatGeq(p.profit_percent_actual, Int2Rat(p.profit_percent))

\* C28: in every state between two sell scans, the state loaded after a
\* restart included, no position is in both active_positions and
\* completed_trades, active_positions holds only positions with status
\* active, and so at the start of a tick with fewer than max_positions active
\* positions the max_positions test does not refuse the purchase.
C28_ListsDisjoint ==
    pc # "scan"
        => /\ \A k \in 1..Len(active_positions) :
                  /\ active_positions[k].status = "active"
                  /\ \A j \in 1..Len(completed_trades) :
                         completed_trades[j].id # active_positions[k].id
           /\ (pc = "cycle" /\ ActiveCount < config.max_positions)
                  => DcaGate # "max_positions"

\* A position was bought within the configured price ceiling.
WithinCeiling(p) == p.buy_price <= config.max_entry_price

\* C29: with max_entry_price configured, no position is recorded with
\* buy_price > max_entry_price.
C29_BuyPriceWithinCeiling ==
    config.max_entry_price # 0 => AllPositionsSatisfy(WithinCeiling)

\* C30: when load_state fails on the state file, the ledger the new process
\* starts with is the one of __init__: total_invested 0, no active positions,
\* no completed trades, position_counter 0, zero counters, last_dca_time 0.
C30_LoadAllOrNothing ==
    [][(event'.op = "restart" /\ disk.kind = "damaged") => Ledger' = FreshLedger]_vars

====
